---- MODULE Spec2Model ----
(***************************************************************************)
(* Model of PythonAPI/carla/source/libcarla/libcarla.cpp: the call         *)
(* adapters that release the interpreter lock (GIL) around native calls,   *)
(* the callback bridge MakeCallback, and the list/optional value bridges.  *)
(*                                                                         *)
(* Threads are scripting threads (Python threads, which run scripting code *)
(* while they hold the GIL) and native worker threads (which never hold it *)
(* except inside a bridged callback or a deleter).  Every thread has a     *)
(* stack of frames; the top frame is the thread's position in the code.    *)
(***************************************************************************)
EXTENDS Integers, Sequences, FiniteSets, TLC

\* ---- bounds of the model ----------------------------------------------
MaxOps == 3
MaxCallbacks == 2
MaxOwners == 2

\* ---- program constants ------------------------------------------------
\* CALL_WITHOUT_GIL .. CALL_WITHOUT_GIL_5; CONST_CALL_WITHOUT_GIL .. _4
MaxArity == 5
MaxConstArity == 4
\* CALL_RETURNING_LIST .. CALL_RETURNING_LIST_3
MaxListArity == 3

Script == {"T1", "T2"}
Workers == {"W1"}
Threads == Script \cup Workers

\* Scripting values handed to MakeCallback: two callables and a non-callable.
PyValues == {"f", "g", "n"}

\* What a scripting callable can raise: an ordinary exception or SystemExit.
Exceptions == {"Exception", "SystemExit"}

VARIABLES
  alive,    \* the process has not exited
  holds,    \* holds[t]: thread t holds the GIL
  stack,    \* stack[t]: the frames of thread t, the last one on top
  ret,      \* ret[t]: what the last bridge call of t gave back to its caller,
            \*   until the caller is switched out, ends or calls again
  cbs,      \* the Stored Callbacks made by MakeCallback, in creation order
  ops,      \* operations started so far (bounds the run)
  conv      \* a value-bridge conversion in progress (list <-> vector)

threadVars == <<alive, holds, stack, ret, cbs, ops>>

vars == <<alive, holds, stack, ret, cbs, ops, conv>>

\* ---- value bridge: data -------------------------------------------------
MaxLen == 3

\* Native element types T of std::vector<T>, and the values of an element.
ElemTypes == {"int", "float", "str"}

Values == {0, 1}

\* The scripting types of the objects a scripting list can hold.
PyTypes == {"int", "float", "str", "NoneType"}

PyObjects == [ty : PyTypes, v : Values]

SeqsUpTo(S, n) == UNION {[1 .. m -> S] : m \in 0 .. n}

NoVector == [ok |-> FALSE, vec |-> <<>>, err |-> "-", at |-> 0]

\* A std::ostream: the text written so far, piece by piece, and whether a
\* null pointer was dereferenced on the way.
NoStream == [text |-> <<>>, derefNull |-> FALSE]

\* The elements PrintList is given: plain values, carla::SharedPtr<T> (null or
\* pointing to a value) and std::pair.  A container holds one kind.
ItemKinds == {"value", "ptr", "pair"}

ItemsOf(kind) ==
  IF kind = "value" THEN [kind : {"value"}, null : {FALSE}, a : Values, b : {0}]
  ELSE IF kind = "ptr" THEN
    [kind : {"ptr"}, null : {FALSE}, a : Values, b : {0}]
      \cup {[kind |-> "ptr", null |-> TRUE, a |-> 0, b |-> 0]}
  ELSE [kind : {"pair"}, null : {FALSE}, a : Values, b : Values]

\* boost::python::object(): the scripting None.
PyNone == [ty |-> "NoneType", v |-> 0]

\* A native optional of element type T: absent, or present with a value.
Optionals == [has : BOOLEAN, val : Values]

Absent == [has |-> FALSE, val |-> 0]

ConvStart == [phase |-> "start", from |-> "-", ty |-> "-", seq |-> <<>>,
              list |-> <<>>, out |-> NoVector,
              opt |-> Absent, obj |-> PyNone, obj2 |-> PyNone,
              items |-> <<>>, printed |-> NoStream]

\* ---- frames -----------------------------------------------------------
\* x is the event (`message`) an invocation of a bridged callback was given and
\* calls the calls of scripting callables the invocation has made.
Frame(l, i, kind, o) ==
  [loc |-> l, n |-> i, k |-> kind, out |-> o, x |-> 0, calls |-> <<>>]

Top(t) == stack[t][Len(stack[t])]

Push(t, f) == [stack EXCEPT ![t] = Append(@, f)]

Pop(t) == [stack EXCEPT ![t] = SubSeq(@, 1, Len(@) - 1)]

SetTop(t, f) == [stack EXCEPT ![t] = [@ EXCEPT ![Len(@)] = f]]

Goto(t, l) == SetTop(t, [Top(t) EXCEPT !.loc = l])

NoRet == [op |-> "none", arg |-> "-", res |-> "-"]

\* ---- the GIL (host runtime) and the guards of carla/PythonUtil.h -------
TokenFree == \A u \in Threads : ~holds[u]

\* PyCallable_Check
Callable(v) == v \in {"f", "g"}

\* carla::PythonUtil::ReleaseGIL(): PyEval_SaveThread()
ReleaseGIL_ctor(t) == [holds EXCEPT ![t] = FALSE]

\* carla::PythonUtil::~ReleaseGIL(): PyEval_RestoreThread(), blocks until free
ReleaseGIL_dtor_ready(t) == TokenFree

ReleaseGIL_dtor(t) == [holds EXCEPT ![t] = TRUE]

\* carla::PythonUtil::AcquireGIL(): PyGILState_Ensure(), blocks until the GIL
\* is free unless the thread holds it already
AcquireGIL_ctor_ready(t) == holds[t] \/ TokenFree

AcquireGIL_ctor(t) == [holds EXCEPT ![t] = TRUE]

\* carla::PythonUtil::~AcquireGIL(): PyGILState_Release(state): the GIL goes
\* back to the state it had when the guard was made
AcquireGIL_dtor(t, heldBefore) == [holds EXCEPT ![t] = heldBefore]

\* A thread is running scripting code: the body of a scripting thread or the
\* scripting callable of a bridged callback.
InScriptCtx(t) == Top(t).loc \in {"script", "cb_call"}

\* A thread waits for the GIL.
WantsToken(t) == Top(t).loc \in {"wait", "cb_wait", "cb_lock", "restore", "del_lock"}

Init ==
  /\ alive = TRUE
  /\ holds = [t \in Threads |-> t = "T1"]
  /\ stack = [t \in Threads |->
                IF t = "T1" THEN <<Frame("script", 0, "-", "-")>>
                ELSE IF t \in Script THEN <<Frame("wait", 0, "-", "-")>>
                ELSE <<Frame("idle", 0, "-", "-")>>]
  /\ ret = [t \in Threads |-> NoRet]
  /\ cbs = <<>>
  /\ ops = 0
  /\ conv = ConvStart

\* ---- host runtime: thread switching ------------------------------------
\* A thread that waits for the GIL takes it when it is free.
TakeToken(t) ==
  /\ alive
  /\ Top(t).loc \in {"wait", "cb_wait"}
  /\ TokenFree
  /\ holds' = [holds EXCEPT ![t] = TRUE]
  /\ stack' = Goto(t, IF Top(t).loc = "wait" THEN "script" ELSE "cb_call")
  /\ UNCHANGED <<conv, alive, ret, cbs, ops>>

\* The interpreter makes the running thread drop the GIL when another thread
\* waits for it.
Yield(t) ==
  /\ alive
  /\ InScriptCtx(t)
  /\ \E u \in Threads \ {t} : WantsToken(u)
  /\ holds' = [holds EXCEPT ![t] = FALSE]
  /\ stack' = Goto(t, IF Top(t).loc = "script" THEN "wait" ELSE "cb_wait")
  /\ ret' = [ret EXCEPT ![t] = NoRet]
  /\ UNCHANGED <<conv, alive, cbs, ops>>

\* A scripting thread ends and gives the GIL up.
Finish(t) ==
  /\ alive
  /\ t \in Script
  /\ Len(stack[t]) = 1
  /\ Top(t).loc = "script"
  /\ holds' = [holds EXCEPT ![t] = FALSE]
  /\ stack' = Goto(t, "done")
  /\ ret' = [ret EXCEPT ![t] = NoRet]
  /\ UNCHANGED <<conv, alive, cbs, ops>>

\* ---- call adapters: CALL_WITHOUT_GIL, _1 .. _5 and the CONST_ forms -----
\* The adapters that exist: arity 0..5 on a mutable receiver, 0..4 on a const one.
AdapterArities(c) == 0 .. (IF c THEN MaxConstArity ELSE MaxArity)

\* Variant: the adapter without its guard (the body of CALL_RETURNING_COPY).
CallWithoutGil_NoGuard(t, n, c) ==
  /\ alive
  /\ InScriptCtx(t)
  /\ ops < MaxOps
  /\ n \in AdapterArities(c)
  /\ stack' = Push(t, Frame("native", 0, "plain", "-"))
  /\ ret' = [ret EXCEPT ![t] = NoRet]
  /\ ops' = ops + 1
  /\ UNCHANGED <<conv, alive, holds, cbs>>

\* +[](cls &self, T1_ t1, ...) { ReleaseGIL unlock; return self.fn(...); }
\* entered from scripting code: the guard is made, then the native method runs.
\* The n arguments are forwarded to self.fn untouched; the adapters differ in
\* nothing else, so the frame does not keep n or the receiver's constness.
CallWithoutGil(t, n, c) ==
  /\ alive
  /\ InScriptCtx(t)
  /\ ops < MaxOps
  /\ n \in AdapterArities(c)
  /\ holds' = ReleaseGIL_ctor(t)
  /\ stack' = Push(t, Frame("native", 0, "plain", "-"))
  /\ ret' = [ret EXCEPT ![t] = NoRet]
  /\ ops' = ops + 1
  /\ UNCHANGED <<conv, alive, cbs>>

\* Variant: the optional adapter calling self.fn() directly, as
\* CALL_RETURNING_OPTIONAL does, instead of through CONST_CALL_WITHOUT_GIL.
CallReturningOptionalWithoutGil_NoGuard(t) ==
  /\ alive
  /\ InScriptCtx(t)
  /\ ops < MaxOps
  /\ stack' = Push(t, Frame("native", 0, "optional", "-"))
  /\ ret' = [ret EXCEPT ![t] = NoRet]
  /\ ops' = ops + 1
  /\ UNCHANGED <<conv, alive, holds, cbs>>

\* CALL_RETURNING_OPTIONAL_WITHOUT_GIL: call = CONST_CALL_WITHOUT_GIL(cls, fn);
\* optional = call(self): the inner adapter makes the guard and runs self.fn().
CallReturningOptionalWithoutGil(t) ==
  /\ alive
  /\ InScriptCtx(t)
  /\ ops < MaxOps
  /\ holds' = ReleaseGIL_ctor(t)
  /\ stack' = Push(t, Frame("native", 0, "optional", "-"))
  /\ ret' = [ret EXCEPT ![t] = NoRet]
  /\ ops' = ops + 1
  /\ UNCHANGED <<conv, alive, cbs>>

\* self.fn(...) comes back with a value.
NativeReturn(t) ==
  /\ alive
  /\ Top(t).loc = "native"
  /\ stack' = SetTop(t, [Top(t) EXCEPT !.loc = "restore", !.out = "value"])
  /\ UNCHANGED <<conv, alive, holds, ret, cbs, ops>>

\* self.fn(...) throws: the stack unwinds through the guard.
NativeThrow(t) ==
  /\ alive
  /\ Top(t).loc = "native"
  /\ stack' = SetTop(t, [Top(t) EXCEPT !.loc = "restore", !.out = "error"])
  /\ UNCHANGED <<conv, alive, holds, ret, cbs, ops>>

\* Variant: the GIL restored by hand after self.fn() instead of by a scoped
\* guard, so that an error leaving self.fn() skips the restore.
AdapterScopeExit_NoUnwind(t) ==
  /\ alive
  /\ Top(t).loc = "restore"
  /\ Top(t).out = "error" \/ ReleaseGIL_dtor_ready(t)
  /\ holds' = IF Top(t).out = "error" THEN holds ELSE ReleaseGIL_dtor(t)
  /\ IF Top(t).k = "optional" /\ Top(t).out = "value"
       THEN /\ stack' = Goto(t, "opt_conv")
            /\ ret' = ret
       ELSE /\ stack' = Pop(t)
            /\ ret' = [ret EXCEPT ![t] =
                        [op |-> "CALL_WITHOUT_GIL", arg |-> Top(t).k, res |-> Top(t).out]]
  /\ UNCHANGED <<conv, alive, cbs, ops>>

\* Variant: in CALL_RETURNING_OPTIONAL_WITHOUT_GIL the optional is converted
\* inside the guard's scope, before the GIL is taken back.
AdapterScopeExit_ConvertFirst(t) ==
  /\ alive
  /\ Top(t).loc = "restore"
  /\ IF Top(t).k = "optional" /\ Top(t).out = "value"
       THEN /\ stack' = Goto(t, "opt_conv")
            /\ UNCHANGED <<holds, ret>>
       ELSE /\ ReleaseGIL_dtor_ready(t)
            /\ holds' = ReleaseGIL_dtor(t)
            /\ stack' = Pop(t)
            /\ ret' = [ret EXCEPT ![t] =
                        [op |-> "CALL_WITHOUT_GIL", arg |-> Top(t).k, res |-> Top(t).out]]
  /\ UNCHANGED <<conv, alive, cbs, ops>>

\* The guard `unlock` is destroyed at the end of the adapter's scope, on return
\* and on unwinding alike; then the value or the error reaches the caller.  In
\* CALL_RETURNING_OPTIONAL_WITHOUT_GIL a returned optional is converted next.
AdapterScopeExit(t) ==
  /\ alive
  /\ Top(t).loc = "restore"
  /\ ReleaseGIL_dtor_ready(t)
  /\ holds' = ReleaseGIL_dtor(t)
  /\ IF Top(t).k = "optional" /\ Top(t).out = "value"
       THEN /\ stack' = Goto(t, "opt_conv")
            /\ ret' = ret
       ELSE /\ stack' = Pop(t)
            /\ ret' = [ret EXCEPT ![t] =
                        [op |-> "CALL_WITHOUT_GIL", arg |-> Top(t).k, res |-> Top(t).out]]
  /\ UNCHANGED <<conv, alive, cbs, ops>>

\* optional.has_value() ? boost::python::object(*optional) : boost::python::object()
OptionalConvert(t) ==
  /\ alive
  /\ Top(t).loc = "opt_conv"
  /\ stack' = Pop(t)
  /\ ret' = [ret EXCEPT ![t] =
              [op |-> "CALL_WITHOUT_GIL", arg |-> "optional", res |-> "value"]]
  /\ UNCHANGED <<conv, alive, holds, cbs, ops>>

\* CALL_RETURNING_LIST, _1 .. _3: no guard; the native call and the append loop
\* run with the GIL as the caller has it.
CallReturningList(t, n) ==
  /\ alive
  /\ InScriptCtx(t)
  /\ ops < MaxOps
  /\ n \in 0 .. MaxListArity
  /\ stack' = Push(t, Frame("list_conv", 0, "list", "-"))
  /\ ret' = [ret EXCEPT ![t] = NoRet]
  /\ ops' = ops + 1
  /\ UNCHANGED <<conv, alive, holds, cbs>>

\* The loop ends and the list is returned, or self.fn(...) threw.
ListReturn(t, o) ==
  /\ alive
  /\ Top(t).loc = "list_conv"
  /\ o \in {"value", "error"}
  /\ stack' = Pop(t)
  /\ ret' = [ret EXCEPT ![t] = [op |-> "CALL_RETURNING_LIST", arg |-> "list", res |-> o]]
  /\ UNCHANGED <<conv, alive, holds, cbs, ops>>

\* ---- MakeCallback -------------------------------------------------------
\* Variant: callback_ptr made without the deleter (plain delete).
Deleter_Default == "delete"

\* using Deleter = carla::PythonUtil::AcquireGILDeleter
Deleter == "AcquireGILDeleter"

\* Variant: no PyCallable_Check; whatever is given is captured.
MakeCallback_NoCheck(t, v) ==
  /\ alive
  /\ InScriptCtx(t)
  /\ ops < MaxOps
  /\ Len(cbs) < MaxCallbacks
  /\ v \in PyValues
  /\ cbs' = Append(cbs, [fn |-> v, owners |-> 1, deleter |-> "AcquireGILDeleter", live |-> TRUE])
  /\ ret' = [ret EXCEPT ![t] = [op |-> "MakeCallback", arg |-> v, res |-> "ok"]]
  /\ ops' = ops + 1
  /\ UNCHANGED <<conv, alive, holds, stack>>

\* if (!PyCallable_Check(callback.ptr())) { PyErr_SetString(TypeError); throw }
\* callback_ptr = SharedPtr<py::object>{new py::object(callback), Deleter()};
\* return [callback = std::move(callback_ptr)](auto message) {...}
MakeCallback(t, v) ==
  /\ alive
  /\ InScriptCtx(t)
  /\ ops < MaxOps
  /\ Len(cbs) < MaxCallbacks
  /\ v \in PyValues
  /\ IF ~Callable(v)
       THEN /\ cbs' = cbs
            /\ ret' = [ret EXCEPT ![t] = [op |-> "MakeCallback", arg |-> v, res |-> "TypeError"]]
       ELSE /\ cbs' = Append(cbs, [fn |-> v, owners |-> 1, deleter |-> Deleter, live |-> TRUE])
            /\ ret' = [ret EXCEPT ![t] = [op |-> "MakeCallback", arg |-> v, res |-> "ok"]]
  /\ ops' = ops + 1
  /\ UNCHANGED <<conv, alive, holds, stack>>

\* Some frame of some thread is an invocation of bridged callback i.
Invoking(i) ==
  \E t \in Threads : \E j \in DOMAIN stack[t] :
     /\ stack[t][j].loc \in {"cb_lock", "cb_call", "cb_wait", "cb_print"}
     /\ stack[t][j].n = i

\* A native holder copies the invocable: one more owner of callback_ptr.
CopyCallback(t, i) ==
  /\ alive
  /\ Top(t).loc = "idle"
  /\ ops < MaxOps
  /\ i \in DOMAIN cbs
  /\ cbs[i].owners >= 1
  /\ cbs[i].owners < MaxOwners
  /\ cbs' = [cbs EXCEPT ![i].owners = @ + 1]
  /\ ops' = ops + 1
  /\ UNCHANGED <<conv, alive, holds, stack, ret>>

\* A holder drops its copy of the invocable, from a native thread, from inside
\* a native call or from scripting code.  The last owner's release runs the
\* deleter of callback_ptr on the releasing thread.
DropOwner(t, i) ==
  /\ alive
  /\ Top(t).loc \in {"idle", "native"} \/ InScriptCtx(t)
  /\ i \in DOMAIN cbs
  /\ cbs[i].owners >= 1
  /\ cbs[i].owners > 1 \/ ~Invoking(i)
  /\ cbs' = [cbs EXCEPT ![i].owners = @ - 1]
  /\ IF cbs[i].owners > 1
       THEN stack' = stack
       ELSE stack' = Push(t, Frame(IF cbs[i].deleter = "AcquireGILDeleter"
                                     THEN "del_lock" ELSE "del_run",
                                   i, IF holds[t] THEN "held" ELSE "free", "-"))
  /\ UNCHANGED <<conv, alive, holds, ret, ops>>

\* AcquireGILDeleter::operator(): AcquireGIL lock;
DeleterAcquire(t) ==
  /\ alive
  /\ Top(t).loc = "del_lock"
  /\ AcquireGIL_ctor_ready(t)
  /\ holds' = AcquireGIL_ctor(t)
  /\ stack' = Goto(t, "del_run")
  /\ UNCHANGED <<conv, alive, ret, cbs, ops>>

\* delete ptr; then the deleter's guard, if any, goes out of scope.
DeleterDelete(t) ==
  /\ alive
  /\ Top(t).loc = "del_run"
  /\ cbs' = [cbs EXCEPT ![Top(t).n].live = FALSE]
  /\ holds' = AcquireGIL_dtor(t, Top(t).k = "held")
  /\ stack' = Pop(t)
  /\ UNCHANGED <<conv, alive, ret, ops>>

\* ---- the bridged callback: [callback](auto message) {...} ----------------
\* The events (sensor data, world snapshots, ...) native code produces.
Events == {0, 1}

\* py::object(message): the event bridged into a scripting object.
BridgeMessage(x) == [ty |-> "message", v |-> x]

\* py::call<void>(callback->ptr(), py::object(message)): the callable called
\* and its argument tuple.
PyCall(callback, message) == [fn |-> callback.fn, args |-> <<BridgeMessage(message)>>]

\* A native worker thread produces an event and invokes bridged callback i.
Dispatch(t, i, x) ==
  /\ alive
  /\ t \in Workers
  /\ Top(t).loc = "idle"
  /\ ops < MaxOps
  /\ i \in DOMAIN cbs
  /\ cbs[i].owners >= 1
  /\ x \in Events
  /\ stack' = Push(t, [Frame("cb_lock", i, IF holds[t] THEN "held" ELSE "free", "-")
                         EXCEPT !.x = x])
  /\ ops' = ops + 1
  /\ UNCHANGED <<conv, alive, holds, ret, cbs>>

\* Variant: the bridged callback without `AcquireGIL lock`.
CallbackAcquire_NoLock(t) ==
  /\ alive
  /\ Top(t).loc = "cb_lock"
  /\ stack' = SetTop(t, [Top(t) EXCEPT
                 !.loc = "cb_call",
                 !.calls = Append(@, PyCall(cbs[Top(t).n], Top(t).x))])
  /\ ret' = [ret EXCEPT ![t] = NoRet]
  /\ UNCHANGED <<conv, alive, holds, cbs, ops>>

\* carla::PythonUtil::AcquireGIL lock;  then py::call<void>(...) starts.
CallbackAcquire(t) ==
  /\ alive
  /\ Top(t).loc = "cb_lock"
  /\ AcquireGIL_ctor_ready(t)
  /\ holds' = AcquireGIL_ctor(t)
  /\ stack' = SetTop(t, [Top(t) EXCEPT
                 !.loc = "cb_call",
                 !.calls = Append(@, PyCall(cbs[Top(t).n], Top(t).x))])
  /\ ret' = [ret EXCEPT ![t] = NoRet]
  /\ UNCHANGED <<conv, alive, cbs, ops>>

\* Variant: the GIL taken for the call is kept when the bridged callback returns.
CallableReturn_KeepsToken(t) ==
  /\ alive
  /\ Top(t).loc = "cb_call"
  /\ stack' = Pop(t)
  /\ ret' = [ret EXCEPT ![t] =
              [op |-> "callback", arg |-> cbs[Top(t).n].fn, res |-> "returned"]]
  /\ UNCHANGED <<conv, alive, holds, cbs, ops>>

\* py::call<void>(callback->ptr(), py::object(message)) returns; `lock` goes
\* out of scope.
CallableReturn(t) ==
  /\ alive
  /\ Top(t).loc = "cb_call"
  /\ holds' = AcquireGIL_dtor(t, Top(t).k = "held")
  /\ stack' = Pop(t)
  /\ ret' = [ret EXCEPT ![t] =
              [op |-> "callback", arg |-> cbs[Top(t).n].fn, res |-> "returned"]]
  /\ UNCHANGED <<conv, alive, cbs, ops>>

\* Variant: a raised error makes the bridged callback call the callable again.
CallableRaise_Retry(t, e) ==
  /\ alive
  /\ Top(t).loc = "cb_call"
  /\ e \in Exceptions
  /\ IF Len(Top(t).calls) < 2
       THEN stack' = SetTop(t, [Top(t) EXCEPT
                        !.calls = Append(@, PyCall(cbs[Top(t).n], Top(t).x))])
       ELSE stack' = SetTop(t, [Top(t) EXCEPT !.loc = "cb_print", !.out = e])
  /\ UNCHANGED <<conv, alive, holds, ret, cbs, ops>>

\* The callable raises e: py::call throws error_already_set, which the catch
\* clause takes.
CallableRaise(t, e) ==
  /\ alive
  /\ Top(t).loc = "cb_call"
  /\ e \in Exceptions
  /\ stack' = SetTop(t, [Top(t) EXCEPT !.loc = "cb_print", !.out = e])
  /\ UNCHANGED <<conv, alive, holds, ret, cbs, ops>>

\* catch (const py::error_already_set &) { PyErr_Print(); }
\* PyErr_Print prints the traceback and clears the error, unless the error is
\* SystemExit: then it prints nothing and exits the process (Py_Exit).
PyErrPrint(t) ==
  /\ Top(t).loc = "cb_print"
  /\ alive
  /\ IF Top(t).out = "SystemExit"
       THEN /\ alive' = FALSE
            /\ UNCHANGED <<holds, stack, ret>>
       ELSE /\ alive' = alive
            /\ holds' = AcquireGIL_dtor(t, Top(t).k = "held")
            /\ stack' = Pop(t)
            /\ ret' = [ret EXCEPT ![t] =
                        [op |-> "callback", arg |-> cbs[Top(t).n].fn, res |-> "reported"]]
  /\ UNCHANGED <<conv, cbs, ops>>

\* ---- value bridge: list <-> vector -------------------------------------
\* boost::python::object(item), as result.append(item) makes it: the element's
\* to-python conversion gives a scripting object of the element's type.
ToPython(T, x) == [ty |-> T, v |-> x]

\* boost::python::extract<T>(obj) succeeds on an object of T's scripting type;
\* the built-in converters also take a scripting int where T is a float.
Convertible(T, obj) == obj.ty = T \/ (T = "float" /\ obj.ty = "int")

Extract(T, obj) == obj.v

RECURSIVE AppendLoop_Front(_, _, _, _)
\* Variant: each item inserted at the front of the list instead of appended.
AppendLoop_Front(T, S, i, result) ==
  IF i > Len(S) THEN result
  ELSE AppendLoop_Front(T, S, i + 1, <<ToPython(T, S[i])>> \o result)

RECURSIVE AppendLoop(_, _, _, _)
\* for (auto &&item : self.fn()) { result.append(item); }
AppendLoop(T, S, i, result) ==
  IF i > Len(S) THEN result
  ELSE AppendLoop(T, S, i + 1, Append(result, ToPython(T, S[i])))

\* Variant of CALL_RETURNING_LIST with the front-inserting loop.
CALL_RETURNING_LIST_Front(T, S) == AppendLoop_Front(T, S, 1, <<>>)

\* CALL_RETURNING_LIST: boost::python::list result; the loop; return result;
CALL_RETURNING_LIST(T, S) == AppendLoop(T, S, 1, <<>>)

RECURSIVE ExtractLoop_Skip(_, _, _, _)
\* Variant: an element that cannot be extracted is skipped (extract::check()).
ExtractLoop_Skip(T, input, i, result) ==
  IF i > Len(input) THEN [ok |-> TRUE, vec |-> result, err |-> "-", at |-> 0]
  ELSE IF Convertible(T, input[i])
    THEN ExtractLoop_Skip(T, input, i + 1, Append(result, Extract(T, input[i])))
    ELSE ExtractLoop_Skip(T, input, i + 1, result)

RECURSIVE ExtractLoop(_, _, _, _)
\* for (i = 0; i < list_size; ++i) result.emplace_back(extract<T>(input[i]));
\* a failed extract throws (TypeError) out of the function: no vector returns.
ExtractLoop(T, input, i, result) ==
  IF i > Len(input) THEN [ok |-> TRUE, vec |-> result, err |-> "-", at |-> 0]
  ELSE IF Convertible(T, input[i])
    THEN ExtractLoop(T, input, i + 1, Append(result, Extract(T, input[i])))
    ELSE [ok |-> FALSE, vec |-> <<>>, err |-> "TypeError", at |-> i]

\* Variant of PythonLitstToVector with the skipping loop.
PythonLitstToVector_Skip(T, input) == ExtractLoop_Skip(T, input, 1, <<>>)

\* std::vector<T> PythonLitstToVector(boost::python::list &input)
PythonLitstToVector(T, input) == ExtractLoop(T, input, 1, <<>>)

\* A native method returns the ordered sequence S of elements of type T.
ConvNativeResult(T, S) ==
  /\ conv.phase = "start"
  /\ conv' = [conv EXCEPT !.phase = "native", !.from = "native", !.ty = T, !.seq = S]
  /\ UNCHANGED threadVars

\* CALL_RETURNING_LIST bridges the native result to a scripting list.
ConvToList ==
  /\ conv.phase = "native"
  /\ conv' = [conv EXCEPT !.phase = "list",
                          !.list = CALL_RETURNING_LIST(conv.ty, conv.seq)]
  /\ UNCHANGED threadVars

\* Scripting code builds a list L of its own, to be passed as a vector<T>.
ConvScriptList(T, L) ==
  /\ conv.phase = "start"
  /\ conv' = [conv EXCEPT !.phase = "list", !.from = "script", !.ty = T, !.list = L]
  /\ UNCHANGED threadVars

\* PythonLitstToVector<T> converts the list at hand.
ConvToVector ==
  /\ conv.phase = "list"
  /\ conv' = [conv EXCEPT !.phase = "vector",
                          !.out = PythonLitstToVector(conv.ty, conv.list)]
  /\ UNCHANGED threadVars

\* ---- value bridge: optional -> scripting object ---------------------------
\* Variant: the contained value tested instead of has_value().
OptionalToPythonObject_Truthy(T, optional) ==
  IF optional.has /\ optional.val # 0 THEN ToPython(T, optional.val) ELSE PyNone

\* optional.has_value() ? boost::python::object(*optional) : boost::python::object()
OptionalToPythonObject(T, optional) ==
  IF optional.has THEN ToPython(T, optional.val) ELSE PyNone

\* CALL_RETURNING_OPTIONAL_WITHOUT_GIL, its return statement:
\* optional.has_value() ? boost::python::object(*optional) : boost::python::object()
OptionalWithoutGilResult(T, optional) ==
  IF optional.has THEN ToPython(T, optional.val) ELSE PyNone

\* A native method returns the optional o of element type T.
ConvOptionalResult(T, o) ==
  /\ conv.phase = "start"
  /\ o \in Optionals
  /\ ~o.has => o = Absent
  /\ conv' = [conv EXCEPT !.phase = "optional", !.from = "native", !.ty = T, !.opt = o]
  /\ UNCHANGED threadVars

\* CALL_RETURNING_OPTIONAL bridges it through OptionalToPythonObject.
ConvOptionalBridge ==
  /\ conv.phase = "optional"
  /\ conv' = [conv EXCEPT !.phase = "object",
                          !.obj = OptionalToPythonObject(conv.ty, conv.opt)]
  /\ UNCHANGED threadVars

\* CALL_RETURNING_OPTIONAL_WITHOUT_GIL bridges the same optional.
ConvOptionalBridgeWithoutGil ==
  /\ conv.phase = "object"
  /\ conv' = [conv EXCEPT !.phase = "objects",
                          !.obj2 = OptionalWithoutGilResult(conv.ty, conv.opt)]
  /\ UNCHANGED threadVars

\* ---- pretty printing ------------------------------------------------------
\* out << x
Write(out, piece) == [out EXCEPT !.text = Append(@, piece)]

\* operator<<(std::ostream &, const std::pair<T,H> &):
\* out << "(" << data.first << "," << data.second << ")"
PrintPair(first, second) ==
  "(" \o ToString(first) \o "," \o ToString(second) \o ")"

\* PrintListItem_(out, const T &item): out << item
PrintItemText(item) ==
  IF item.kind = "pair" THEN PrintPair(item.a, item.b) ELSE ToString(item.a)

\* Variant: the SharedPtr overload without the null test.
PrintListItem__NoNullTest(out, item) ==
  IF item.kind = "ptr"
    THEN [text |-> Append(out.text, ToString(item.a)),
          derefNull |-> out.derefNull \/ item.null]
    ELSE Write(out, PrintItemText(item))

\* PrintListItem_(out, const carla::SharedPtr<T> &item): "nullptr" for a null
\* pointer, *item otherwise; the generic overload for everything else.
PrintListItem_(out, item) ==
  IF item.kind = "ptr"
    THEN IF item.null THEN Write(out, "nullptr")
         ELSE Write(out, ToString(item.a))
    ELSE Write(out, PrintItemText(item))

RECURSIVE PrintRest(_, _, _)
\* for (++it; it != list.end(); ++it) { out << ", "; PrintListItem_(out, *it); }
PrintRest(out, list, i) ==
  IF i > Len(list) THEN out
  ELSE PrintRest(PrintListItem_(Write(out, ", "), list[i]), list, i + 1)

\* Variant: the separator written after every element, the last included.
PrintList_TrailingSeparator(out, list) ==
  LET RECURSIVE Each(_, _)
      Each(o, i) == IF i > Len(list) THEN o
                    ELSE Each(Write(PrintListItem_(o, list[i]), ", "), i + 1)
  IN Write(Each(Write(out, "["), 1), "]")

\* PrintList(out, list): '[', the first element, ", " and an element for each
\* further one, ']'
PrintList(out, list) ==
  LET opened == Write(out, "[")
      body == IF list # <<>>
                THEN PrintRest(PrintListItem_(opened, list[1]), list, 2)
                ELSE opened
  IN Write(body, "]")

\* Native code has a container of elements of one kind to print.
ConvContainer(kind, L) ==
  /\ conv.phase = "start"
  /\ conv' = [conv EXCEPT !.phase = "container", !.from = "native", !.items = L]
  /\ UNCHANGED threadVars

\* operator<<(std::ostream &, const std::vector<T> &): PrintList(out, v)
ConvPrintList ==
  /\ conv.phase = "container"
  /\ conv' = [conv EXCEPT !.phase = "printed",
                          !.printed = PrintList(NoStream, conv.items)]
  /\ UNCHANGED threadVars

NextConv ==
  \/ \E T \in ElemTypes : \E S \in SeqsUpTo(Values, MaxLen) : ConvNativeResult(T, S)
  \/ ConvToList
  \/ \E T \in ElemTypes : \E L \in SeqsUpTo(PyObjects, MaxLen) : ConvScriptList(T, L)
  \/ ConvToVector
  \/ \E T \in ElemTypes : \E o \in Optionals : ConvOptionalResult(T, o)
  \/ ConvOptionalBridge
  \/ ConvOptionalBridgeWithoutGil
  \/ \E kind \in ItemKinds : \E L \in SeqsUpTo(ItemsOf(kind), MaxLen) :
       ConvContainer(kind, L)
  \/ ConvPrintList

SpecConv == Init /\ [][NextConv]_vars

Next ==
  \E t \in Threads :
    \/ TakeToken(t)
    \/ Yield(t)
    \/ Finish(t)
    \/ \E c \in BOOLEAN : \E n \in 0 .. MaxArity : CallWithoutGil(t, n, c)
    \/ CallReturningOptionalWithoutGil(t)
    \/ NativeReturn(t)
    \/ NativeThrow(t)
    \/ AdapterScopeExit(t)
    \/ OptionalConvert(t)
    \/ \E n \in 0 .. MaxListArity : CallReturningList(t, n)
    \/ \E o \in {"value", "error"} : ListReturn(t, o)
    \/ \E v \in PyValues : MakeCallback(t, v)
    \/ \E i \in 1 .. MaxCallbacks : CopyCallback(t, i)
    \/ \E i \in 1 .. MaxCallbacks : DropOwner(t, i)
    \/ DeleterAcquire(t)
    \/ DeleterDelete(t)
    \/ \E i \in 1 .. MaxCallbacks : \E x \in Events : Dispatch(t, i, x)
    \/ CallbackAcquire(t)
    \/ CallableReturn(t)
    \/ \E e \in Exceptions : CallableRaise(t, e)
    \/ PyErrPrint(t)

Spec == Init /\ [][Next]_vars

\* ---- fair specification of the scripting threads ------------------------
\* Two scripting threads and no native worker: the scenario of a long native
\* call next to unrelated scripting code.
NextScript ==
  \E t \in Script :
    \/ TakeToken(t)
    \/ Yield(t)
    \/ Finish(t)
    \/ \E c \in BOOLEAN : \E n \in 0 .. MaxArity : CallWithoutGil(t, n, c)
    \/ CallReturningOptionalWithoutGil(t)
    \/ NativeReturn(t)
    \/ NativeThrow(t)
    \/ AdapterScopeExit(t)
    \/ OptionalConvert(t)
    \/ \E n \in 0 .. MaxListArity : CallReturningList(t, n)
    \/ \E o \in {"value", "error"} : ListReturn(t, o)

\* A step of thread t that takes the GIL, at whichever position t waits for it.
AcquireStep(t) ==
  TakeToken(t) \/ AdapterScopeExit(t) \/ CallbackAcquire(t) \/ DeleterAcquire(t)

\* A step of thread t that needs no GIL to be free: the native method ends, the
\* conversion ends, or the interpreter makes t drop the GIL for a waiting thread.
RunStep(t) ==
  \/ Yield(t)
  \/ NativeReturn(t)
  \/ NativeThrow(t)
  \/ OptionalConvert(t)
  \/ \E o \in {"value", "error"} : ListReturn(t, o)

\* The GIL does not starve a waiting thread (strong fairness of acquisition);
\* a running thread goes on (native calls and conversions end, the holder drops
\* the GIL when another thread waits); scripting code comes to its end.
FairScript ==
  \A t \in Script :
    /\ SF_vars(AcquireStep(t))
    /\ WF_vars(RunStep(t))
    /\ SF_vars(Finish(t))

FairScriptSpec == Init /\ [][NextScript]_vars /\ FairScript

\* ---- fair specification of a callback next to a native call --------------
\* Scripting threads that register callbacks and make CALL_WITHOUT_GIL calls,
\* and a native worker that invokes the bridged callbacks.
NextCallback ==
  \E t \in Threads :
    \/ TakeToken(t)
    \/ Yield(t)
    \/ Finish(t)
    \/ \E c \in BOOLEAN : \E n \in 0 .. MaxArity : CallWithoutGil(t, n, c)
    \/ NativeReturn(t)
    \/ NativeThrow(t)
    \/ AdapterScopeExit(t)
    \/ \E v \in PyValues : MakeCallback(t, v)
    \/ \E i \in 1 .. MaxCallbacks : \E x \in Events : Dispatch(t, i, x)
    \/ CallbackAcquire(t)
    \/ CallableReturn(t)
    \/ \E e \in Exceptions : CallableRaise(t, e)
    \/ PyErrPrint(t)

\* The native method of t's adapter ends once no other thread is inside a
\* bridged callback: a native call may wait for the callbacks it causes (a
\* simulation tick waiting for its listeners), and nothing more is assumed of it.
NativeReturnAfterCallbacks(t) ==
  /\ NativeReturn(t)
  /\ \A w \in Workers \ {t} : Len(stack[w]) = 1

\* The scripting callable of a bridged callback ends, by return or by raise.
CallableEnds(t) == CallableReturn(t) \/ \E e \in Exceptions : CallableRaise(t, e)

\* The GIL does not starve a waiting thread; the holder drops the GIL when
\* another thread waits; a callable comes to its end; a native call ends when
\* it has no callback left to wait for.
FairCallback ==
  \A t \in Threads :
    /\ SF_vars(AcquireStep(t))
    /\ WF_vars(Yield(t) \/ NativeReturnAfterCallbacks(t))
    /\ SF_vars(CallableEnds(t))

FairCallbackSpec == Init /\ [][NextCallback]_vars /\ FairCallback

\* ---- claims --------------------------------------------------------------
\* The positions at which a thread touches scripting objects.
PyLocs == {"script", "cb_call", "cb_print", "list_conv", "opt_conv", "del_run"}

TouchesPy(t) == Top(t).loc \in PyLocs

\* Thread t is inside a CALL_WITHOUT_GIL* adapter (any frame of its stack).
InAdapter(t) ==
  \E j \in DOMAIN stack[t] : stack[t][j].loc \in {"native", "restore", "opt_conv"}

\* C1: at most one thread holds the GIL, and while a bridged callback runs the
\* callable (or reports its error) on one thread, no other thread is at a
\* position that touches scripting objects.
C1_MutualExclusion ==
  /\ Cardinality({t \in Threads : holds[t]}) <= 1
  /\ \A t2 \in Threads :
       Top(t2).loc \in {"cb_call", "cb_print"} =>
         \A t1 \in Threads \ {t2} : ~TouchesPy(t1)

\* C1 witness: the callable runs on a worker while a scripting thread is inside
\* a CALL_WITHOUT_GIL native call.
C1_Witness ==
  \E t2 \in Workers : \E t1 \in Script :
    /\ Top(t2).loc = "cb_call"
    /\ holds[t2]
    /\ Top(t1).loc = "native"

\* C2 (as claimed): a raised error of the callable never ends the process: at
\* every point at or after the catch clause the process is alive.
C2_RaiseContained ==
  \A t \in Threads :
    (Top(t).loc = "cb_print" \/ ret[t].res = "reported") => alive

\* C3: a non-callable value is refused at registration: every Stored Callback
\* holds a callable, MakeCallback answered TypeError exactly for a non-callable
\* value, and every invocation of a bridged callback is on a callable.
C3_NonCallableRefused ==
  /\ \A i \in DOMAIN cbs : Callable(cbs[i].fn)
  /\ \A t \in Threads :
       ret[t].op = "MakeCallback" =>
         (ret[t].res = "TypeError" <=> ~Callable(ret[t].arg))
  /\ \A t \in Threads : \A j \in DOMAIN stack[t] :
       stack[t][j].loc \in {"cb_lock", "cb_call", "cb_wait", "cb_print"} =>
         Callable(cbs[stack[t][j].n].fn)

\* C3 witness: MakeCallback has just refused the non-callable value and no
\* Stored Callback exists.
C3_Witness ==
  \E t \in Threads :
    /\ ret[t] = [op |-> "MakeCallback", arg |-> "n", res |-> "TypeError"]
    /\ cbs = <<>>

\* C4: in every CALL_WITHOUT_GIL* adapter the thread does not hold the GIL
\* while the native method runs, and whenever the adapter's scope is left, by
\* return or by a propagating error, the same thread holds the GIL again.
C4_ReleasedThenReacquired ==
  /\ [](\A t \in Threads : Top(t).loc = "native" => ~holds[t])
  /\ [][\A t \in Threads :
          (Top(t).loc = "restore" /\ stack'[t] # stack[t]) => holds'[t]]_vars

\* C4 witness: an adapter was left by an error of the native method and the
\* thread, back in scripting code, holds the GIL.
C4_Witness ==
  \E t \in Threads :
    /\ ret[t] = [op |-> "CALL_WITHOUT_GIL", arg |-> "plain", res |-> "error"]
    /\ InScriptCtx(t)
    /\ holds[t]

\* C5: while a thread is inside the native call of a CALL_WITHOUT_GIL* adapter,
\* a second thread that waits for the GIL can take it at once, unless a third
\* thread holds it: the first thread's call does not keep it waiting.
C5_SecondThreadNotBlocked ==
  \A t1 \in Threads : \A t2 \in Threads \ {t1} :
    ( /\ alive
      /\ Top(t1).loc = "native"
      /\ WantsToken(t2)
      /\ \A u \in Threads \ {t1} : ~holds[u] )
    => ENABLED AcquireStep(t2)

\* C5 witness: a second thread runs scripting code, GIL in hand, after a bridge
\* call of its own, while the first thread's native call has not returned.
C5_Witness ==
  \E t1 \in Script : \E t2 \in Script \ {t1} :
    /\ Top(t1).loc = "native"
    /\ Top(t2).loc = "script"
    /\ holds[t2]
    /\ ret[t2].op = "CALL_RETURNING_LIST"

\* C6: under fair scheduling no scripting thread is stuck: a thread that waits
\* for the GIL gets it, a thread inside a CALL_WITHOUT_GIL* native call gets
\* the GIL back and returns, and every scripting thread runs to its end.
C6_NoDeadlock ==
  \A t \in Script :
    /\ (Top(t).loc = "wait") ~> holds[t]
    /\ (Top(t).loc = "native") ~> (~InAdapter(t) /\ holds[t])
    /\ <>(Top(t).loc = "done")

\* C6 witness: the second thread's code has completed while the first thread is
\* still inside its native call.
C6_Witness ==
  \E t1 \in Script : \E t2 \in Script \ {t1} :
    /\ Top(t1).loc = "native"
    /\ Top(t2).loc = "done"

\* Some thread is running the deleter of Stored Callback i.
Deleting(i) ==
  \E t \in Threads : \E j \in DOMAIN stack[t] :
    stack[t][j].loc \in {"del_lock", "del_run"} /\ stack[t][j].n = i

\* C7: the captured callable is destroyed only after its last owner is gone,
\* the deleter runs exactly then, and the thread that deletes it holds the GIL.
C7_DestroyedUnderToken ==
  /\ \A t \in Threads : Top(t).loc = "del_run" => holds[t]
  /\ \A i \in DOMAIN cbs :
       /\ (~cbs[i].live \/ Deleting(i)) => cbs[i].owners = 0
       /\ cbs[i].owners = 0 => (~cbs[i].live \/ Deleting(i))

\* C7 witness: a native worker released the last owner, its deleter took the
\* GIL and is about to delete the callable.
C7_Witness ==
  \E t \in Workers :
    /\ Top(t).loc = "del_run"
    /\ Top(t).k = "free"
    /\ holds[t]
    /\ cbs[Top(t).n].live

\* C8: a thread that runs scripting code (where MakeCallback captures the
\* callable), bridges the message and calls the callable, reports a raised
\* error, or converts the result of a list or optional adapter holds the GIL.
C8_AccessUnderToken ==
  \A t \in Threads :
    Top(t).loc \in {"script", "cb_call", "cb_print", "list_conv", "opt_conv"}
      => holds[t]

\* C8 witness: the optional adapter converts its result while another thread
\* waits for the GIL.
C8_Witness ==
  \E t \in Threads : \E u \in Threads \ {t} :
    /\ Top(t).loc = "opt_conv"
    /\ holds[t]
    /\ WantsToken(u)

\* C9: a native sequence bridged to a scripting list and back by
\* PythonLitstToVector comes back equal, and the list has its length.
C9_RoundTrip ==
  /\ (conv.from = "native" /\ conv.phase \in {"list", "vector"}) =>
       /\ Len(conv.list) = Len(conv.seq)
       /\ \A i \in 1 .. Len(conv.seq) : conv.list[i] = ToPython(conv.ty, conv.seq[i])
  /\ (conv.from = "native" /\ conv.phase = "vector") =>
       /\ conv.out.ok
       /\ conv.out.vec = conv.seq

\* C9 witness: a sequence of two different elements has made the round trip.
C9_Witness ==
  /\ conv.from = "native"
  /\ conv.phase = "vector"
  /\ Len(conv.seq) >= 2
  /\ conv.seq[1] # conv.seq[2]

\* The indices of the elements of the list that cannot be extracted as T.
BadIndices(T, L) == {i \in 1 .. Len(L) : ~Convertible(T, L[i])}

\* C10: a list with an element that cannot be extracted as the element type
\* makes PythonLitstToVector fail with a TypeError at the first such element,
\* and no vector comes back.
C10_BadElementFails ==
  (conv.phase = "vector" /\ BadIndices(conv.ty, conv.list) # {}) =>
    /\ ~conv.out.ok
    /\ conv.out.err = "TypeError"
    /\ conv.out.vec = <<>>
    /\ conv.out.at \in BadIndices(conv.ty, conv.list)
    /\ \A i \in BadIndices(conv.ty, conv.list) : conv.out.at <= i

\* C10 witness: the element that cannot be extracted comes after one that can.
C10_Witness ==
  /\ conv.phase = "vector"
  /\ Len(conv.list) >= 2
  /\ Convertible(conv.ty, conv.list[1])
  /\ ~Convertible(conv.ty, conv.list[2])
  /\ ~conv.out.ok

\* C11: an absent optional is bridged to None and a present one to its wrapped
\* value, nothing else, and CALL_RETURNING_OPTIONAL_WITHOUT_GIL gives the same
\* object as OptionalToPythonObject for the same optional.
C11_OptionalBridged ==
  /\ conv.phase \in {"object", "objects"} =>
       /\ ~conv.opt.has => conv.obj = PyNone
       /\ conv.opt.has => conv.obj = [ty |-> conv.ty, v |-> conv.opt.val]
  /\ conv.phase = "objects" => conv.obj2 = conv.obj

\* C11 witness: a present optional holding 0 was bridged by both adapters to a
\* scripting object that is not None.
C11_Witness ==
  /\ conv.phase = "objects"
  /\ conv.opt = [has |-> TRUE, val |-> 0]
  /\ conv.obj # PyNone
  /\ conv.obj2 # PyNone

\* The text the claim prescribes for one element.
C12_ItemText(item) ==
  CASE item.kind = "ptr" /\ item.null -> "nullptr"
    [] item.kind = "pair" -> "(" \o ToString(item.a) \o "," \o ToString(item.b) \o ")"
    [] OTHER -> ToString(item.a)

\* C12: a printed container is '[', its elements in order with ", " between
\* neighbours and nowhere else, then ']' ("[" and "]" alone when it is empty);
\* a null SharedPtr element reads nullptr and is not dereferenced; a pair reads
\* (first,second).
C12_PrintedAsList ==
  conv.phase = "printed" =>
    LET n == Len(conv.items)
        text == conv.printed.text
    IN /\ Len(text) = IF n = 0 THEN 2 ELSE 2 * n + 1
       /\ text[1] = "["
       /\ text[Len(text)] = "]"
       /\ \A i \in 1 .. n : text[2 * i] = C12_ItemText(conv.items[i])
       /\ \A i \in 1 .. n - 1 : text[2 * i + 1] = ", "
       /\ ~conv.printed.derefNull

\* C12 witness: a container whose second element is a null SharedPtr, after a
\* non-null one, has been printed.
C12_Witness ==
  /\ conv.phase = "printed"
  /\ Len(conv.items) >= 2
  /\ conv.items[1].kind = "ptr" /\ ~conv.items[1].null
  /\ conv.items[2].kind = "ptr" /\ conv.items[2].null
  /\ conv.printed.text[4] = "nullptr"

\* C13 (as claimed): an invocation of the bridged callback by a thread that
\* does not hold the GIL takes the GIL before the callable runs, holds it while
\* the callable runs and while a raised error is handled, and the step that
\* ends the callable's run or the handling of its error returns from the
\* invocation with the GIL released.
C13_AcquireInvokeRelease ==
  /\ [](\A t \in Threads : Top(t).loc \in {"cb_call", "cb_print"} => holds[t])
  /\ [][\A t \in Threads :
          (Top(t).loc = "cb_lock" /\ Top(t).k = "free" /\ stack'[t] # stack[t])
            => (Top(t)'.loc = "cb_call" /\ holds'[t])]_vars
  /\ [][\A t \in Threads :
          (Top(t).k = "free" /\ (CallableReturn(t) \/ PyErrPrint(t)))
            => (stack'[t] = Pop(t)[t] /\ ~holds'[t])]_vars

\* The frames of thread t that are invocations of a bridged callback.
CallbackFrames(t) ==
  {j \in DOMAIN stack[t] :
     stack[t][j].loc \in {"cb_lock", "cb_call", "cb_print"}}

\* C14: an invocation of the bridged callback with event x calls the callable
\* exactly once: no call before the GIL is taken, and from then on exactly one
\* call, of the callable given at registration, with the bridged x as its only
\* argument; the invocation does not end without the call, a handled error
\* ends the invocation instead of calling again, and the captured callable of
\* a Stored Callback never changes.
C14_DeliveredOnce ==
  /\ [](\A t \in Threads : \A j \in CallbackFrames(t) :
          LET f == stack[t][j]
          IN IF f.loc = "cb_lock" THEN f.calls = <<>>
             ELSE f.calls = <<[fn |-> cbs[f.n].fn,
                               args |-> <<[ty |-> "message", v |-> f.x]>>]>>)
  /\ [][\A t \in Threads :
          (Top(t).loc = "cb_lock" /\ stack'[t] # stack[t])
            => (/\ Len(stack'[t]) = Len(stack[t])
                /\ Top(t)'.loc = "cb_call"
                /\ Top(t)'.x = Top(t).x
                /\ Len(Top(t)'.calls) = 1)]_vars
  /\ [][\A t \in Threads :
          (Top(t).loc = "cb_print" /\ stack'[t] # stack[t])
            => stack'[t] = Pop(t)[t]]_vars
  /\ [][\A i \in DOMAIN cbs : cbs'[i].fn = cbs[i].fn]_vars

\* C14 witness: the callable "g" of the second Stored Callback has been called
\* with event 1 and raised, and the error is being handled.
C14_Witness ==
  \E t \in Workers :
    /\ Top(t).loc = "cb_print"
    /\ Top(t).x = 1
    /\ Len(cbs) = 2
    /\ cbs[1].fn = "f"
    /\ Top(t).n = 2
    /\ Top(t).calls = <<[fn |-> "g", args |-> <<[ty |-> "message", v |-> 1]>>]>>

\* C15: in CALL_RETURNING_OPTIONAL_WITHOUT_GIL the calling thread gives the GIL
\* up on entry, is without it while the native method runs and until the inner
\* adapter's guard ends, has it back from the end of that guard on, so while
\* the optional is converted, and has it when the adapter returns or lets an
\* error through.
C15_OptionalReleasedForNativeCall ==
  /\ [](\A t \in Threads :
          Top(t).k = "optional" =>
            /\ Top(t).loc \in {"native", "restore"} => ~holds[t]
            /\ Top(t).loc = "opt_conv" => holds[t])
  /\ [][\A t \in Threads :
          (Len(stack'[t]) > Len(stack[t]) /\ Top(t)'.k = "optional")
            => (holds[t] /\ ~holds'[t] /\ Top(t)'.loc = "native")]_vars
  /\ [][\A t \in Threads :
          (Top(t).k = "optional" /\ Top(t).loc = "restore" /\ stack'[t] # stack[t])
            => holds'[t]]_vars
  /\ [][\A t \in Threads :
          (Top(t).k = "optional" /\ Len(stack'[t]) < Len(stack[t]))
            => (holds'[t] /\ ret'[t].op = "CALL_WITHOUT_GIL")]_vars

\* C15 witness: the optional adapter has returned a converted value to
\* scripting code, which holds the GIL, while another thread waits for it.
C15_Witness ==
  \E t \in Threads : \E u \in Threads \ {t} :
    /\ ret[t] = [op |-> "CALL_WITHOUT_GIL", arg |-> "optional", res |-> "value"]
    /\ InScriptCtx(t)
    /\ holds[t]
    /\ WantsToken(u)

\* A scripting thread is inside the native call of a CALL_WITHOUT_GIL adapter.
InNativeCall == \E t \in Script : Top(t).loc = "native" /\ Top(t).k = "plain"

\* C16: a bridged callback that a worker invokes while a scripting thread is
\* inside a CALL_WITHOUT_GIL native call gets the GIL and its callable runs to
\* its end, by return or raise, although the native call is only known to end
\* after the callback.
C16_CallbackCompletes ==
  \A w \in Workers :
    /\ (Top(w).loc = "cb_lock" /\ InNativeCall)
         ~> (Top(w).loc = "cb_call" /\ holds[w])
    /\ (Top(w).loc = "cb_lock" /\ InNativeCall)
         ~> (Len(stack[w]) = 1 \/ Top(w).loc = "cb_print")

\* C16 witness: the callable has returned to the worker while the scripting
\* thread's native call, begun before, has not ended.
C16_Witness ==
  \E w \in Workers :
    /\ ret[w].op = "callback"
    /\ ret[w].res = "returned"
    /\ Len(stack[w]) = 1
    /\ InNativeCall

\* Thread t is inside an adapter called by the callable of a bridged callback.
NestedInCallback(t) ==
  /\ Len(stack[t]) >= 2
  /\ Top(t).loc \in {"native", "restore", "opt_conv", "list_conv"}
  /\ stack[t][Len(stack[t]) - 1].loc = "cb_call"

\* C17: when the callable of a bridged callback calls a CALL_WITHOUT_GIL
\* adapter, the thread is without the GIL during the native call and has it
\* again when the adapter is left and the callable goes on; when the bridged
\* callback returns, the thread holds the GIL exactly if it held it before the
\* invocation; and while a thread is in such a nested call at most one thread
\* holds the GIL.
C17_GuardsNestBalanced ==
  /\ [](\A t \in Threads :
          NestedInCallback(t) =>
            /\ Top(t).loc \in {"native", "restore"} => ~holds[t]
            /\ Cardinality({u \in Threads : holds[u]}) <= 1)
  /\ [][\A t \in Threads :
          (NestedInCallback(t) /\ Len(stack'[t]) < Len(stack[t]))
            => (Top(t)'.loc = "cb_call" /\ holds'[t])]_vars
  /\ [][\A t \in Threads :
          (Top(t).loc \in {"cb_call", "cb_print"} /\ Len(stack'[t]) < Len(stack[t]))
            => (holds'[t] <=> Top(t).k = "held")]_vars

\* C17 witness: the callable of a bridged callback goes on, GIL in hand, after
\* a CALL_WITHOUT_GIL call it made came back.
C17_Witness ==
  \E t \in Workers :
    /\ Top(t).loc = "cb_call"
    /\ ret[t].op = "CALL_WITHOUT_GIL"
    /\ ret[t].arg = "plain"
    /\ holds[t]

====
